---- MODULE Spec2Model ----
(***************************************************************************)
(* Model of the Replay map view, frontend/src/pages/Replay/Deck.tsx.       *)
(*                                                                         *)
(* The component reads a snapshot of an external store (agents, bridge     *)
(* overlays, selected heatmap key), keeps two pieces of React state        *)
(* (curZoom, hovering), derives a list of deck.gl layers on every render   *)
(* and registers the callbacks onViewStateChange, onHover, getCursor,      *)
(* getTooltip and onClick.                                                 *)
(*                                                                         *)
(* Zoom levels are real numbers in the source; the model counts them in    *)
(* tenths, so 10.5 is 105 and the threshold 10 is 100.                     *)
(*                                                                         *)
(* JavaScript values that may be undefined, or that may be a number or a   *)
(* string, are tagged records [t, n, s] so that typeof, the nullish tests  *)
(* and the truthiness tests of the source are modelled by what they do.    *)
(***************************************************************************)
EXTENDS Integers, Sequences, FiniteSets, TLC

VARIABLES
    store,      \* snapshot of the external mobx store read by Deck
    curZoom,    \* React state, Deck.tsx:60 (tenths of a zoom level)
    hovering,   \* React state, Deck.tsx:61
    layers,     \* the layer list handed to <DeckGL layers={layers}>
    rendered,   \* TRUE once the component body has run for this state
    calls,      \* the store.setClickedAgentID calls issued so far, in order
    lastEvent,  \* history: the most recent UI event delivered to Deck
    lastViewZoom, \* history: zoom of the most recent view-state change
    lastHoverHit, \* history: whether the most recent hover had an object
    iconIn,     \* an agent profile handed to the icon selection
    iconOut,    \* the avatar URL selected for iconIn
    colorIn,    \* the arguments of bridgeStatusColor
    colorOut,   \* the colour bridgeStatusColor returned for colorIn
    tipIn,      \* the {object, layer} argument of getTooltip
    tipOut      \* the tooltip getTooltip returned for tipIn

vars == << store, curZoom, hovering, layers, rendered, calls, lastEvent,
           lastViewZoom, lastHoverHit,
           iconIn, iconOut, colorIn, colorOut, tipIn, tipOut >>

uiVars == << store, curZoom, hovering, layers, rendered, calls, lastEvent,
            lastViewZoom, lastHoverHit >>
iconVars == << iconIn, iconOut >>
colorVars == << colorIn, colorOut >>
tipVars == << tipIn, tipOut >>

-----------------------------------------------------------------------------
(* Bounds of the model *)

MaxAgents == 2
MaxBridges == 2
UiAgents == 1
UiBridges == 1
MaxClicks == 2

-----------------------------------------------------------------------------
(* JavaScript values *)

Undef == [t |-> "undefined", n |-> 0, s |-> ""]
Null == [t |-> "null", n |-> 0, s |-> ""]
Num(n) == [t |-> "number", n |-> n, s |-> ""]
Str(s) == [t |-> "string", n |-> 0, s |-> s]

\* v === undefined
IsUndefined(v) == v.t = "undefined"

\* the test made by ?? and ?. : v is null or undefined
Nullish(v) == v.t \in {"undefined", "null"}

\* a ?? b
Coalesce(a, b) == IF Nullish(a) THEN b ELSE a

\* Boolean(v) for the values above: 0 and "" are falsy
Truthy(v) ==
    CASE v.t = "undefined" -> FALSE
      [] v.t = "null" -> FALSE
      [] v.t = "number" -> v.n # 0
      [] v.t = "string" -> v.s # ""
      [] OTHER -> TRUE

-----------------------------------------------------------------------------
(* Program constants *)

InitialZoom == 105
ZoomThreshold == 100
PointRadius == 10
PointColor == << 22, 119, 255 >>
DefaultIcon == "/icon/agent.png"

BRIDGE_COLORS ==
    [ critical |-> << 220, 53, 69, 220 >>,
      inProgress |-> << 255, 165, 0, 220 >>,
      default |-> << 52, 152, 219, 200 >> ]

-----------------------------------------------------------------------------
(* Icon selection, Deck.tsx:94-120 *)

\* The body of the try block. A null profile makes profile.gender throw;
\* the catch block logs and leaves avatarUrl at its default.
AvatarUrlOffByOne(profile) ==
    IF IsUndefined(profile) THEN DefaultIcon
    ELSE IF profile.t = "null" THEN DefaultIcon
    ELSE LET gender == profile.gender
             age == profile.age
         IN  IF gender = Str("male") /\ age.t = "number"
             THEN IF age.n <= 18 THEN "/icon/boy1.png"
                  ELSE IF age.n < 65 THEN "/icon/boy2.png"
                  ELSE "/icon/boy3.png"
             ELSE IF gender = Str("female") /\ age.t = "number"
             THEN IF age.n <= 18 THEN "/icon/girl1.png"
                  ELSE IF age.n < 65 THEN "/icon/girl2.png"
                  ELSE "/icon/girl3.png"
             ELSE DefaultIcon

AvatarUrl(profile) ==
    IF IsUndefined(profile) THEN DefaultIcon
    ELSE IF profile.t = "null" THEN DefaultIcon
    ELSE LET gender == profile.gender
             age == profile.age
         IN  IF gender = Str("male") /\ age.t = "number"
             THEN IF age.n < 18 THEN "/icon/boy1.png"
                  ELSE IF age.n < 65 THEN "/icon/boy2.png"
                  ELSE "/icon/boy3.png"
             ELSE IF gender = Str("female") /\ age.t = "number"
             THEN IF age.n < 18 THEN "/icon/girl1.png"
                  ELSE IF age.n < 65 THEN "/icon/girl2.png"
                  ELSE "/icon/girl3.png"
             ELSE DefaultIcon

-----------------------------------------------------------------------------
(* The layers derived on each render, Deck.tsx:63-248 *)

\* a.status[key]: a status that is a plain string has no such property
StatusGet(status, key) ==
    IF status.t = "object" /\ key.s \in DOMAIN status.m
    THEN status.m[key.s]
    ELSE Undef

IconDatum(a) ==
    [ id |-> a.id, coordinate |-> << a.lng, a.lat >>,
      avatarUrl |-> AvatarUrl(a.profile) ]

\* the callback of agentList.map for the text layer: undefined for an
\* agent whose name is "", the label entry otherwise
TextDatum(a) ==
    IF a.name = ""
    THEN [ defined |-> FALSE, id |-> a.id, position |-> << a.lng, a.lat >>, text |-> a.name ]
    ELSE [ defined |-> TRUE, id |-> a.id, position |-> << a.lng, a.lat >>, text |-> a.name ]

\* d => d !== undefined
IsDefinedDatum(d) == d.defined

StripDefined(d) == [ id |-> d.id, position |-> d.position, text |-> d.text ]

PointDatum(a) ==
    [ id |-> a.id, position |-> << a.lng, a.lat >>,
      radius |-> PointRadius, color |-> PointColor ]

HeatDatum(a, key) ==
    [ position |-> << a.lng, a.lat >>,
      weight |-> Coalesce(StatusGet(a.status, key), Num(0)) ]

MapSeq(s, F(_)) == [ i \in 1..Len(s) |-> F(s[i]) ]

IconLayer(agentList) ==
    [ id |-> "icon", pickable |-> TRUE, data |-> MapSeq(agentList, IconDatum) ]

TextLayer(agentList) ==
    [ id |-> "text", pickable |-> FALSE,
      data |-> MapSeq(SelectSeq(MapSeq(agentList, TextDatum), IsDefinedDatum),
                      StripDefined) ]

PointLayer(agentList) ==
    [ id |-> "point", pickable |-> TRUE, data |-> MapSeq(agentList, PointDatum) ]

HeatmapLayer(agentList, key) ==
    [ id |-> "heatmap", pickable |-> FALSE,
      data |-> [ i \in 1..Len(agentList) |-> HeatDatum(agentList[i], key) ] ]

\* layers = [heatmapLayer, ...layers]
PrependAtEnd(layer, ls) == ls \o << layer >>

Prepend(layer, ls) == << layer >> \o ls

\* if (curZoom > 10)
IconModeRaised(zoom) == zoom > ZoomThreshold + 5

IconModeLowered(zoom) == zoom > ZoomThreshold - 10

IconMode(zoom) == zoom > ZoomThreshold

AgentLayersSkipEmpty(agentList, zoom) ==
    IF agentList = << >> THEN << >>
    ELSE IF IconMode(zoom)
    THEN << IconLayer(agentList), TextLayer(agentList) >>
    ELSE << PointLayer(agentList) >>

AgentLayers(agentList, zoom) ==
    IF IconMode(zoom)
    THEN << IconLayer(agentList), TextLayer(agentList) >>
    ELSE << PointLayer(agentList) >>

\* store.bridgeOverlays ?? []
BridgeOverlaysOf(s) ==
    IF Nullish(s.bridgeOverlays) THEN << >> ELSE s.bridgeOverlays.list

HasPositionEither(b) == ~IsUndefined(b.lng) \/ ~IsUndefined(b.lat)

HasPosition(b) == ~IsUndefined(b.lng) /\ ~IsUndefined(b.lat)

BridgePoints(s) == SelectSeq(BridgeOverlaysOf(s), HasPosition)

BridgeLayers(s) ==
    IF Len(BridgePoints(s)) > 0
    THEN << [ id |-> "bridge-status", pickable |-> TRUE, data |-> BridgePoints(s) ],
            [ id |-> "bridge-status-label", pickable |-> TRUE, data |-> BridgePoints(s) ] >>
    ELSE << >>

\* if (store.heatmapKeyInStatus !== undefined)
HeatmapSelected(s) == ~IsUndefined(s.heatmapKeyInStatus)

\* The component body: agent layers pushed first, the heatmap layer put in
\* front of them, the bridge layers appended.
Render(s, zoom) ==
    LET agentList == s.agents
        l1 == AgentLayers(agentList, zoom)
        l2 == IF HeatmapSelected(s)
              THEN Prepend(HeatmapLayer(agentList, s.heatmapKeyInStatus), l1)
              ELSE l1
    IN  l2 \o BridgeLayers(s)

-----------------------------------------------------------------------------
(* Store snapshots the component may be handed *)

ObjProfile(gender, age) == [ t |-> "object", gender |-> gender, age |-> age ]
NoProfile == [ t |-> "undefined", gender |-> Undef, age |-> Undef ]
NullProfile == [ t |-> "null", gender |-> Undef, age |-> Undef ]

HeatKey == "mood"

StatusObj(keys, v) == [ t |-> "object", m |-> [ k \in keys |-> v ] ]

Names == { "", "Ann" }
RenderProfiles == { NoProfile, ObjProfile(Str("female"), Num(40)) }
\* AgentStatus.status is an object or a plain string
StatusString == [ t |-> "string", m |-> [ k \in {} |-> Undef ] ]

Statuses ==
    { StatusObj({}, Undef), StatusObj({HeatKey}, Num(0)), StatusObj({HeatKey}, Num(5)),
      StatusString }

\* store.agents is a Map keyed by agent id: the ids are pairwise distinct and
\* Array.from(values()) lists the agents in insertion order
AgentAt(i, name, profile, status) ==
    [ id |-> 100 + i, name |-> name, lng |-> 116 + i, lat |-> 39 + i,
      profile |-> profile, status |-> status ]

AgentLists(max, profiles, statuses) ==
    UNION { { [ i \in 1..n |-> AgentAt(i, nm[i], pr[i], st[i]) ] :
                nm \in [ 1..n -> Names ], pr \in [ 1..n -> profiles ],
                st \in [ 1..n -> statuses ] } : n \in 0..max }

Coordinates == { Undef, Num(7) }

BridgeAt(i, lng, lat) == [ bridge_id |-> 200 + i, lng |-> lng, lat |-> lat ]

BridgeLists(max, lngs, lats) ==
    UNION { { [ i \in 1..n |-> BridgeAt(i, lg[i], lt[i]) ] :
                lg \in [ 1..n -> lngs ], lt \in [ 1..n -> lats ] } :
            n \in 0..max }

NoOverlays == [ t |-> "undefined", list |-> << >> ]
Overlays(list) == [ t |-> "array", list |-> list ]

BridgeCollections(max, lngs, lats) ==
    { NoOverlays } \cup { Overlays(l) : l \in BridgeLists(max, lngs, lats) }

HeatKeys == { Undef, Str(HeatKey) }

Stores(maxAgents, maxBridges) ==
    [ agents : AgentLists(maxAgents, RenderProfiles, Statuses),
      bridgeOverlays : BridgeCollections(maxBridges, Coordinates, Coordinates),
      heatmapKeyInStatus : HeatKeys ]

\* the snapshots used while events are delivered: profile and status play
\* no part in the callbacks
UiAgentLists == AgentLists(UiAgents, { NoProfile }, { StatusObj({HeatKey}, Num(5)) })
UiBridgeCollections == BridgeCollections(UiBridges, Coordinates, { Num(7) })

Zooms == { 95, 100, 105 }

EmptyStore ==
    [ agents |-> << >>, bridgeOverlays |-> NoOverlays, heatmapKeyInStatus |-> Undef ]

\* the last event delivered: tick flips with every event
Event(tick, type, zoom, hit, left, layerId, objId) ==
    [ tick |-> tick, type |-> type, zoom |-> zoom, hit |-> hit, left |-> left,
      layerId |-> layerId, objId |-> objId ]

NoEvent == Event(0, "none", 0, FALSE, FALSE, "", 0)

-----------------------------------------------------------------------------
(* Idle values of the parts a specification does not exercise *)

UiIdle ==
    /\ store = EmptyStore
    /\ curZoom = InitialZoom
    /\ hovering = FALSE
    /\ layers = Render(EmptyStore, InitialZoom)
    /\ rendered = TRUE
    /\ calls = << >>
    /\ lastEvent = NoEvent
    /\ lastViewZoom = InitialZoom
    /\ lastHoverHit = FALSE

IconIdle == iconIn = NoProfile /\ iconOut = ""
ColorIdle == colorIn = << Undef, Undef >> /\ colorOut = << >>
TipIdle == tipIn = << >> /\ tipOut = << >>

-----------------------------------------------------------------------------
(* One render of the component body for a given snapshot and zoom *)

RenderInit ==
    /\ store \in Stores(MaxAgents, MaxBridges)
    /\ curZoom \in Zooms
    /\ hovering = FALSE
    /\ layers = << >>
    /\ rendered = FALSE
    /\ calls = << >>
    /\ lastEvent = NoEvent
    /\ lastViewZoom = InitialZoom
    /\ lastHoverHit = FALSE
    /\ IconIdle /\ ColorIdle /\ TipIdle

RenderBody ==
    /\ ~rendered
    /\ layers' = Render(store, curZoom)
    /\ rendered' = TRUE
    /\ UNCHANGED << store, curZoom, hovering, calls, lastEvent, lastViewZoom, lastHoverHit >>
    /\ UNCHANGED << iconVars, colorVars, tipVars >>

RenderNext == RenderBody

SpecRender == RenderInit /\ [][RenderNext]_vars

-----------------------------------------------------------------------------
(* The mounted component: store changes and UI events, Deck.tsx:55-336 *)

\* What deck.gl hands to onHover and onClick: nothing picked, or the k-th
\* datum of the i-th layer of the list. The callbacks are exercised for
\* every layer of the list, whatever its pickable flag.
NoPick == [ layer |-> 0, index |-> 0 ]

Picks(ls) ==
    { NoPick } \cup
    UNION { { [ layer |-> i, index |-> k ] : k \in 1..Len(ls[i].data) } : i \in 1..Len(ls) }

PickedLayerId(ls, pick) == IF pick.layer = 0 THEN "" ELSE ls[pick.layer].id

PickedObject(ls, pick) == ls[pick.layer].data[pick.index]

\* Boolean(object)
HasObject(pick) == pick.layer # 0

AgentLayerIds == { "icon", "point", "text" }

\* layer.id === 'icon' || layer.id === 'point' || layer.id === 'text'
IsAgentLayer(id) == id = "icon" \/ id = "point" \/ id = "text"

\* the calls onClick adds to the ones already issued
OnClickCallsAnyButton(ls, pick, leftButton) ==
    IF pick.layer = 0 THEN << >>
    ELSE IF IsAgentLayer(ls[pick.layer].id)
    THEN << PickedObject(ls, pick).id >>
    ELSE << >>

OnClickCalls(ls, pick, leftButton) ==
    IF leftButton
    THEN IF pick.layer = 0 THEN << >>
         ELSE IF IsAgentLayer(ls[pick.layer].id)
         THEN << PickedObject(ls, pick).id >>
         ELSE << >>
    ELSE << >>

\* setHovering(Boolean(object))
HoveringOf(pick) == HasObject(pick)

\* setCurZoom(zoom)
ZoomOnlyIn(zoom, old) == IF zoom > old THEN zoom ELSE old

ZoomOf(zoom, old) == zoom

\* getCursor
GetCursor == IF hovering THEN "pointer" ELSE "grab"

Flip(tick) == 1 - tick

PickedId(ls, pick) ==
    IF pick.layer # 0 /\ ls[pick.layer].id \in AgentLayerIds
    THEN PickedObject(ls, pick).id
    ELSE 0

Init ==
    /\ UiIdle
    /\ IconIdle /\ ColorIdle /\ TipIdle

\* the observed store changes and the observer renders again
StoreChange ==
    /\ \E s \in { [ store EXCEPT !.agents = a ] : a \in UiAgentLists }
               \cup { [ store EXCEPT !.bridgeOverlays = b ] : b \in UiBridgeCollections }
               \cup { [ store EXCEPT !.heatmapKeyInStatus = k ] : k \in HeatKeys } :
         /\ s # store
         /\ store' = s
         /\ layers' = Render(s, curZoom)
    /\ UNCHANGED << curZoom, hovering, rendered, calls, lastEvent, lastViewZoom, lastHoverHit >>
    /\ UNCHANGED << iconVars, colorVars, tipVars >>

OnViewStateChange ==
    /\ \E zoom \in Zooms :
         /\ curZoom' = ZoomOf(zoom, curZoom)
         /\ layers' = Render(store, curZoom')
         /\ lastViewZoom' = zoom
         /\ lastEvent' = Event(Flip(lastEvent.tick), "view", zoom, FALSE, FALSE, "", 0)
    /\ UNCHANGED << store, hovering, rendered, calls, lastHoverHit >>
    /\ UNCHANGED << iconVars, colorVars, tipVars >>

OnHover ==
    /\ \E pick \in Picks(layers) :
         /\ hovering' = HoveringOf(pick)
         /\ lastHoverHit' = HasObject(pick)
         /\ lastEvent' = Event(Flip(lastEvent.tick), "hover", 0, HasObject(pick), FALSE,
                               PickedLayerId(layers, pick), PickedId(layers, pick))
    /\ layers' = Render(store, curZoom)
    /\ UNCHANGED << store, curZoom, rendered, calls, lastViewZoom >>
    /\ UNCHANGED << iconVars, colorVars, tipVars >>

OnClick ==
    /\ Len(calls) < MaxClicks
    /\ \E pick \in Picks(layers), leftButton \in BOOLEAN :
         /\ calls' = calls \o OnClickCalls(layers, pick, leftButton)
         /\ lastEvent' = Event(Flip(lastEvent.tick), "click", 0, HasObject(pick), leftButton,
                               PickedLayerId(layers, pick), PickedId(layers, pick))
    /\ UNCHANGED << store, curZoom, hovering, layers, rendered, lastViewZoom, lastHoverHit >>
    /\ UNCHANGED << iconVars, colorVars, tipVars >>

Next == StoreChange \/ OnViewStateChange \/ OnHover \/ OnClick

Spec == Init /\ [][Next]_vars

-----------------------------------------------------------------------------
(* bridgeStatusColor, Deck.tsx:42-52 *)

\* an optional string argument: undefined, or a string as its characters
NoString == [ t |-> "undefined", chars |-> << >> ]
StringOf(chars) == [ t |-> "string", chars |-> chars ]

UpperCase == << "A", "B", "C", "D", "E", "F", "G", "H", "I", "J", "K", "L", "M", "N", "O", "P", "Q", "R", "S", "T", "U", "V", "W", "X", "Y", "Z" >>
LowerCase == << "a", "b", "c", "d", "e", "f", "g", "h", "i", "j", "k", "l", "m", "n", "o", "p", "q", "r", "s", "t", "u", "v", "w", "x", "y", "z" >>

\* String.prototype.toLowerCase on one character
LowerChar(c) ==
    IF \E i \in 1..Len(UpperCase) : UpperCase[i] = c
    THEN LowerCase[CHOOSE i \in 1..Len(UpperCase) : UpperCase[i] = c]
    ELSE c

\* x?.toLowerCase()
ToLowerCase(x) ==
    IF x.t = "undefined" THEN x
    ELSE StringOf([ i \in 1..Len(x.chars) |-> LowerChar(x.chars[i]) ])

\* String.prototype.includes
Includes(chars, sub) ==
    \E i \in 0..(Len(chars) - Len(sub)) : SubSeq(chars, i + 1, i + Len(sub)) = sub

PROGRESS == << "p", "r", "o", "g", "r", "e", "s", "s" >>
CRITICAL == << "c", "r", "i", "t", "i", "c", "a", "l" >>

bridgeStatusColorPriorityFirst(priority, workOrderStatus) ==
    LET normalizedPriority == ToLowerCase(priority)
        normalizedStatus == ToLowerCase(workOrderStatus)
    IN  IF normalizedPriority = StringOf(CRITICAL)
        THEN BRIDGE_COLORS.critical
        ELSE IF /\ normalizedStatus.t = "string" /\ normalizedStatus.chars # << >>
                /\ Includes(normalizedStatus.chars, PROGRESS)
        THEN BRIDGE_COLORS.inProgress
        ELSE BRIDGE_COLORS.default

bridgeStatusColor(priority, workOrderStatus) ==
    LET normalizedPriority == ToLowerCase(priority)
        normalizedStatus == ToLowerCase(workOrderStatus)
    IN  IF /\ normalizedStatus.t = "string" /\ normalizedStatus.chars # << >>
           /\ Includes(normalizedStatus.chars, PROGRESS)
        THEN BRIDGE_COLORS.inProgress
        ELSE IF normalizedPriority = StringOf(CRITICAL)
        THEN BRIDGE_COLORS.critical
        ELSE BRIDGE_COLORS.default

SampleStrings ==
    { NoString } \cup
    { StringOf(c) : c \in {
        << >>,
        << "i", "n", "_", "p", "r", "o", "g", "r", "e", "s", "s" >>,
        << "I", "n", " ", "P", "r", "o", "g", "r", "e", "s", "s" >>,
        << "P", "R", "O", "G", "R", "E", "S", "S" >>,
        << "p", "r", "o", "g", "r", "e", "s" >>,
        << "d", "o", "n", "e" >>,
        << "c", "r", "i", "t", "i", "c", "a", "l" >>,
        << "C", "R", "I", "T", "I", "C", "A", "L" >>,
        << "C", "r", "i", "t", "i", "c", "a", "l" >>,
        << "c", "r", "i", "t", "i", "c", "a" >>,
        << "n", "o", "n", "-", "c", "r", "i", "t", "i", "c", "a", "l" >> } }

ColorInit ==
    /\ UiIdle /\ IconIdle /\ TipIdle
    /\ colorIn \in SampleStrings \X SampleStrings
    /\ colorOut = << >>

ApplyBridgeStatusColor ==
    /\ colorOut = << >>
    /\ colorOut' = bridgeStatusColor(colorIn[1], colorIn[2])
    /\ UNCHANGED << colorIn, uiVars, iconVars, tipVars >>

ColorNext == ApplyBridgeStatusColor

SpecColor == ColorInit /\ [][ColorNext]_vars

-----------------------------------------------------------------------------
(* Icon selection applied to one profile, Deck.tsx:93-126 *)

Genders == { Str("male"), Str("female"), Str("Male"), Str("other"), Undef }

Ages ==
    { Num(n) : n \in { -1, 0, 10, 17, 18, 19, 40, 64, 65, 66, 100 } }
    \cup { Str("17"), Str("old"), Undef }

IconProfiles ==
    { NoProfile, NullProfile } \cup { ObjProfile(g, a) : g \in Genders, a \in Ages }

IconInit ==
    /\ UiIdle /\ ColorIdle /\ TipIdle
    /\ iconIn \in IconProfiles
    /\ iconOut = ""

SelectIcon ==
    /\ iconOut = ""
    /\ iconOut' = AvatarUrl(iconIn)
    /\ UNCHANGED << iconIn, uiVars, colorVars, tipVars >>

IconNext == SelectIcon

SpecIcon == IconInit /\ [][IconNext]_vars

-----------------------------------------------------------------------------
(* getTooltip, Deck.tsx:274-309 *)

\* LAND_USE_NAME, Deck.tsx:26-34; the labels are the source's Chinese labels,
\* written here by their meaning
LandUseTypes ==
    { "LAND_USE_TYPE_UNSPECIFIED", "LAND_USE_TYPE_COMMERCIAL", "LAND_USE_TYPE_INDUSTRIAL",
      "LAND_USE_TYPE_RESIDENTIAL", "LAND_USE_TYPE_PUBLIC", "LAND_USE_TYPE_TRANSPORTATION",
      "LAND_USE_TYPE_OTHER" }

LAND_USE_NAME ==
    [ k \in LandUseTypes |->
        CASE k = "LAND_USE_TYPE_UNSPECIFIED" -> "unspecified"
          [] k = "LAND_USE_TYPE_COMMERCIAL" -> "commercial and service land"
          [] k = "LAND_USE_TYPE_INDUSTRIAL" -> "industrial, mining and storage land"
          [] k = "LAND_USE_TYPE_RESIDENTIAL" -> "residential land"
          [] k = "LAND_USE_TYPE_PUBLIC" -> "public administration and service land"
          [] k = "LAND_USE_TYPE_TRANSPORTATION" -> "transportation land"
          [] k = "LAND_USE_TYPE_OTHER" -> "other land" ]

\* LAND_USE_NAME.get(key)
LandUseGet(key) ==
    IF key.t = "string" /\ key.s \in LandUseTypes THEN Str(LAND_USE_NAME[key.s]) ELSE Undef

DigitChars == << "0", "1", "2", "3", "4", "5", "6", "7", "8", "9" >>

RECURSIVE DigitsOf(_)
DigitsOf(n) ==
    IF n < 10 THEN << DigitChars[n + 1] >>
    ELSE DigitsOf(n \div 10) \o << DigitChars[(n % 10) + 1] >>

\* the text a value contributes to a template literal, as a list of pieces;
\* the empty string contributes nothing
TextOf(v) ==
    CASE v.t = "undefined" -> << "undefined" >>
      [] v.t = "null" -> << "null" >>
      [] v.t = "number" -> IF v.n < 0 THEN << "-" >> \o DigitsOf(-v.n) ELSE DigitsOf(v.n)
      [] v.t = "string" -> IF v.s = "" THEN << >> ELSE << v.s >>

\* object.properties?.name
PropertyOf(object, field) ==
    IF Nullish(object.properties) THEN Undef
    ELSE IF field = "name" THEN object.properties.name ELSE object.properties.land_use

BR == "<br/>"

NoTooltip == [ kind |-> "null", html |-> << >> ]
Tooltip(html) == [ kind |-> "html", html |-> html ]
Pending == [ kind |-> "pending", html |-> << >> ]

HeaderOf(info) == Coalesce(info.name, info.bridge_id)

StatusLine(info) ==
    IF Truthy(info.work_order_status)
    THEN TextOf(Coalesce(info.status, Str("work_order"))) \o << " - " >>
         \o TextOf(info.work_order_status)
    ELSE TextOf(Coalesce(info.status, Str("work_order")))

DueLineTruthy(info) ==
    IF Truthy(info.days_overdue)
    THEN << "Overdue: " >> \o TextOf(info.days_overdue) \o << " days" >>
    ELSE IF Truthy(info.due_date) THEN << "Due: " >> \o TextOf(info.due_date)
    ELSE << >>

DueLine(info) ==
    IF ~IsUndefined(info.days_overdue)
    THEN << "Overdue: " >> \o TextOf(info.days_overdue) \o << " days" >>
    ELSE IF Truthy(info.due_date) THEN << "Due: " >> \o TextOf(info.due_date)
    ELSE << >>

RiskLine(info) ==
    IF Truthy(info.priority) THEN << "Priority: " >> \o TextOf(info.priority) ELSE << >>

BridgeTooltip(info) ==
    Tooltip(<< "<b>" >> \o TextOf(HeaderOf(info)) \o << "</b>", BR >>
            \o StatusLine(info) \o << BR >>
            \o RiskLine(info) \o << BR >>
            \o TextOf(Coalesce(info.action, Str(""))) \o << BR >>
            \o DueLine(info))

AoiTooltip(object) ==
    LET name == PropertyOf(object, "name")
        id == object.id
        landUse == LandUseGet(PropertyOf(object, "land_use"))
    IN  IF IsUndefined(name) \/ IsUndefined(id) \/ IsUndefined(landUse)
        THEN NoTooltip
        ELSE Tooltip(<< "<b>" >> \o TextOf(name) \o << "</b>", BR, "ID = " >>
                     \o TextOf(id) \o << BR >> \o TextOf(landUse))

\* object.t is "undefined" when nothing is hovered; layer is "" without a layer
getTooltip(object, layer) ==
    IF object.t = "undefined" \/ layer = "" THEN NoTooltip
    ELSE IF layer = "bridge-status" \/ layer = "bridge-status-label"
    THEN BridgeTooltip(object)
    ELSE IF layer = "aoi" THEN AoiTooltip(object)
    ELSE NoTooltip

NoProperties == [ t |-> "undefined", name |-> Undef, land_use |-> Undef ]
Properties(name, landUse) == [ t |-> "object", name |-> name, land_use |-> landUse ]

HoverObject(t, name, bridgeId, status, wos, days, due, priority, action, id, properties) ==
    [ t |-> t, name |-> name, bridge_id |-> bridgeId, status |-> status,
      work_order_status |-> wos, days_overdue |-> days, due_date |-> due,
      priority |-> priority, action |-> action, id |-> id, properties |-> properties ]

NoObject ==
    HoverObject("undefined", Undef, Undef, Undef, Undef, Undef, Undef, Undef, Undef, Undef,
                NoProperties)

BridgeObjects ==
    { HoverObject("object", nm, Str("B-1"), st, wos, days, due, pr, ac, Undef, NoProperties) :
        nm \in { Undef, Str("Han River Bridge") },
        st \in { Undef, Str("open") },
        wos \in { Undef, Str(""), Str("in_progress") },
        days \in { Undef, Num(0), Num(12) },
        due \in { Undef, Str(""), Str("2025-01-01") },
        pr \in { Undef, Str("critical") },
        ac \in { Undef, Str("inspect") } }

FeatureObjects ==
    { HoverObject("object", Undef, Undef, Undef, Undef, Undef, Undef, Undef, Undef, id, pp) :
        id \in { Undef, Num(7) },
        pp \in { NoProperties } \cup
               { Properties(nm, lu) :
                   nm \in { Undef, Str("Park") },
                   lu \in { Undef, Str("LAND_USE_TYPE_COMMERCIAL"), Str("LAND_USE_TYPE_FOREST") } } }

HoverObjects == { NoObject } \cup BridgeObjects \cup FeatureObjects

HoverLayers ==
    { "", "bridge-status", "bridge-status-label", "aoi", "icon", "text", "point", "heatmap" }

TipInit ==
    /\ UiIdle /\ IconIdle /\ ColorIdle
    /\ tipIn \in [ object : HoverObjects, layer : HoverLayers ]
    /\ tipOut = Pending

GetTooltip ==
    /\ tipOut = Pending
    /\ tipOut' = getTooltip(tipIn.object, tipIn.layer)
    /\ UNCHANGED << tipIn, uiVars, iconVars, colorVars >>

TipNext == GetTooltip

SpecTooltip == TipInit /\ [][TipNext]_vars

-----------------------------------------------------------------------------
(* Vocabulary of the properties *)

IdsOf(ls) == [ i \in 1..Len(ls) |-> ls[i].id ]

LayersNamed(ls, id) == { i \in 1..Len(ls) : ls[i].id = id }

HasLayer(ls, id) == LayersNamed(ls, id) # {}

TheLayer(ls, id) == ls[CHOOSE i \in LayersNamed(ls, id) : TRUE]

Named(a) == a.name # ""

BothCoordinates(b) == b.lng.t # "undefined" /\ b.lat.t # "undefined"

OverlayList(s) == IF s.bridgeOverlays.t = "undefined" THEN << >> ELSE s.bridgeOverlays.list

\* one icon entry per agent and one text entry per agent with a name, in
\* the order of the agents, and no point layer
IconAndTextPerAgent(ls, agents) ==
    /\ Cardinality(LayersNamed(ls, "icon")) = 1
    /\ Cardinality(LayersNamed(ls, "text")) = 1
    /\ ~HasLayer(ls, "point")
    /\ LET icons == TheLayer(ls, "icon").data
           texts == TheLayer(ls, "text").data
           named == SelectSeq(agents, Named)
       IN  /\ Len(icons) = Len(agents)
           /\ \A k \in 1..Len(agents) : icons[k].id = agents[k].id
           /\ Len(texts) = Len(named)
           /\ \A k \in 1..Len(named) :
                 texts[k].id = named[k].id /\ texts[k].text = named[k].name

\* exactly one point layer with one uniform entry per agent, and neither an
\* icon nor a text layer
UniformPointLayer(ls, agents) ==
    /\ Cardinality(LayersNamed(ls, "point")) = 1
    /\ ~HasLayer(ls, "icon")
    /\ ~HasLayer(ls, "text")
    /\ LET points == TheLayer(ls, "point").data
       IN  /\ Len(points) = Len(agents)
           /\ \A k \in 1..Len(agents) :
                 /\ points[k].id = agents[k].id
                 /\ points[k].radius = 10
                 /\ points[k].color = << 22, 119, 255 >>

\* C1 as stated: every render at zoom >= 10, the value 10 included, shows one
\* icon entry per agent and one text entry per named agent, and no point layer.
C1_IconTextFromTen ==
    (rendered /\ curZoom >= 100) => IconAndTextPerAgent(layers, store.agents)

\* C1 as amended: every render at zoom strictly above 10 shows one icon entry
\* per agent and one text entry per agent whose name is not empty, and no
\* point layer; at zoom exactly 10 the point layer is rendered instead.
C1_IconTextAboveTen ==
    /\ (rendered /\ curZoom > 100) => IconAndTextPerAgent(layers, store.agents)
    /\ (rendered /\ curZoom = 100) => UniformPointLayer(layers, store.agents)

C1_Witness ==
    /\ rendered /\ curZoom > 100
    /\ Len(store.agents) = 2
    /\ store.agents[1].name = "" /\ store.agents[2].name # ""
    /\ HasLayer(layers, "icon")
    /\ Len(TheLayer(layers, "text").data) = 1

\* C2: every render at zoom below 10 shows the agents as exactly one point
\* layer with one entry per agent, each of radius 10 and colour [22,119,255],
\* and no icon or text layer.
C2_PointBelowTen ==
    (rendered /\ curZoom < 100) => UniformPointLayer(layers, store.agents)

C2_Witness ==
    /\ rendered /\ curZoom < 100
    /\ Len(store.agents) = 2
    /\ HasLayer(layers, "point")
    /\ Len(TheLayer(layers, "point").data) = 2

\* C5: the two bridge layers are present exactly when some overlay entry has
\* both coordinates; they come together, and the data of each is the list of
\* the entries with both coordinates, in their original order.
C5_BridgeLayers ==
    rendered =>
        LET expected == SelectSeq(OverlayList(store), BothCoordinates)
        IN  /\ HasLayer(layers, "bridge-status") <=> expected # << >>
            /\ HasLayer(layers, "bridge-status") <=> HasLayer(layers, "bridge-status-label")
            /\ \A i \in 1..Len(layers) :
                  layers[i].id \in { "bridge-status", "bridge-status-label" }
                      => layers[i].data = expected

C5_Witness ==
    /\ rendered
    /\ Len(OverlayList(store)) = 2
    /\ ~BothCoordinates(OverlayList(store)[1])
    /\ OverlayList(store)[1].lng.t # "undefined"
    /\ BothCoordinates(OverlayList(store)[2])
    /\ HasLayer(layers, "bridge-status")
    /\ Len(TheLayer(layers, "bridge-status-label").data) = 1

\* C6: a heatmap layer is present exactly when a heatmap status key is
\* selected; it is then the first layer, has one entry per agent, and each
\* weight is the agent's status value under the key, or 0 without one.
C6_Heatmap ==
    rendered =>
        /\ HasLayer(layers, "heatmap") <=> store.heatmapKeyInStatus.t # "undefined"
        /\ HasLayer(layers, "heatmap") =>
              /\ layers[1].id = "heatmap"
              /\ Cardinality(LayersNamed(layers, "heatmap")) = 1
              /\ Len(layers[1].data) = Len(store.agents)
              /\ \A k \in 1..Len(store.agents) :
                    LET m == store.agents[k].status.m
                        key == store.heatmapKeyInStatus.s
                    IN  layers[1].data[k].weight =
                            IF key \in DOMAIN m THEN m[key] ELSE Num(0)

C6_Witness ==
    /\ rendered
    /\ store.heatmapKeyInStatus.t # "undefined"
    /\ Len(store.agents) = 2
    /\ DOMAIN store.agents[1].status.m = {}
    /\ store.agents[2].status.m = [ k \in { "mood" } |-> Num(5) ]
    /\ layers[1].id = "heatmap"
    /\ HasLayer(layers, "bridge-status")

AgentModes == { << "icon", "text" >>, << "point" >> }

LayerOrders ==
    { h \o a \o b :
        h \in { << >>, << "heatmap" >> },
        a \in AgentModes,
        b \in { << >>, << "bridge-status", "bridge-status-label" >> } }

\* C10: every rendered layer list has pairwise distinct ids in the order
\* [heatmap], then icon,text or point (exactly one of the two modes, also
\* with no agents), then [bridge-status, bridge-status-label]; its length is
\* between 1 and 5.
C10_LayerOrder ==
    rendered =>
        /\ IdsOf(layers) \in LayerOrders
        /\ \A i, j \in 1..Len(layers) : i # j => layers[i].id # layers[j].id
        /\ Len(layers) >= 1 /\ Len(layers) <= 5

C10_Witness ==
    /\ rendered
    /\ store.agents = << >>
    /\ Len(layers) = 5

ClickStep == lastEvent'.type = "click" /\ lastEvent'.tick # lastEvent.tick

HoverStep == lastEvent'.type = "hover" /\ lastEvent'.tick # lastEvent.tick

\* C7: a left-button click on a layer named icon, point or text issues exactly
\* one setClickedAgentID call with the id of the picked object; any other
\* click (right button, nothing picked, another layer) issues no call and
\* changes no state.
C7_Click ==
    [][ ClickStep =>
          IF lastEvent'.left /\ lastEvent'.layerId \in { "icon", "point", "text" }
          THEN calls' = Append(calls, lastEvent'.objId)
          ELSE /\ calls' = calls
               /\ UNCHANGED << store, curZoom, hovering, layers >> ]_vars

C7_Witness ==
    /\ lastEvent.type = "click" /\ lastEvent.left
    /\ lastEvent.layerId = "point"
    /\ Len(calls) = 2
    /\ calls[2] = lastEvent.objId
    /\ lastEvent.objId = 101

\* C9: the layer list is a function of the store snapshot and of the zoom
\* carried by the most recent view-state change (10.5, icon and text mode,
\* before any event); hover events change only the cursor flag, which is
\* pointer exactly when the last hover had an object.
C9_Memoryless ==
    /\ [] ( /\ layers = Render(store, lastViewZoom)
            /\ curZoom = lastViewZoom
            /\ (GetCursor = "pointer") <=> lastHoverHit
            /\ lastEvent.type = "none" =>
                  curZoom = 105 /\ HasLayer(layers, "icon") /\ HasLayer(layers, "text") )
    /\ [][ HoverStep => layers' = layers /\ curZoom' = curZoom /\ store' = store ]_vars

C9_Witness ==
    /\ lastEvent.type = "hover" /\ lastEvent.hit
    /\ GetCursor = "pointer"
    /\ lastViewZoom = 95
    /\ HasLayer(layers, "point")
    /\ Len(store.agents) = 1

AnyCase(chars, from, word) ==
    \A k \in 1..Len(word) :
        chars[from + k] \in { LowerCase[i] : i \in { j \in 1..26 : LowerCase[j] = word[k] } }
                        \cup { UpperCase[i] : i \in { j \in 1..26 : LowerCase[j] = word[k] } }

ContainsAnyCase(x, word) ==
    /\ x.t = "string"
    /\ \E from \in 0..(Len(x.chars) - Len(word)) : AnyCase(x.chars, from, word)

EqualsAnyCase(x, word) ==
    /\ x.t = "string"
    /\ Len(x.chars) = Len(word)
    /\ AnyCase(x.chars, 0, word)

\* C4: bridgeStatusColor returns the in-progress colour whenever the work
\* order status contains "progress" in any letter case, whatever the
\* priority; otherwise the critical colour when the priority is "critical"
\* in any letter case; otherwise the default colour.
C4_BridgeStatusColor ==
    colorOut # << >> =>
        colorOut =
            IF ContainsAnyCase(colorIn[2], << "p", "r", "o", "g", "r", "e", "s", "s" >>)
            THEN << 255, 165, 0, 220 >>
            ELSE IF EqualsAnyCase(colorIn[1], << "c", "r", "i", "t", "i", "c", "a", "l" >>)
            THEN << 220, 53, 69, 220 >>
            ELSE << 52, 152, 219, 200 >>

C4_Witness ==
    /\ colorIn[1] = StringOf(<< "C", "R", "I", "T", "I", "C", "A", "L" >>)
    /\ colorIn[2] = StringOf(<< "I", "n", " ", "P", "r", "o", "g", "r", "e", "s", "s" >>)
    /\ colorOut = << 255, 165, 0, 220 >>

AgeBucket(n) == IF n < 18 THEN 1 ELSE IF n < 65 THEN 2 ELSE 3

BrAt(h) == { i \in 1..Len(h) : h[i] = "<br/>" }

NthBr(h, k) == CHOOSE i \in BrAt(h) : Cardinality({ j \in BrAt(h) : j < i }) = k - 1

\* the k-th of the lines that the <br/> pieces separate
LineOf(h, k) ==
    SubSeq(h,
           IF k = 1 THEN 1 ELSE NthBr(h, k - 1) + 1,
           IF k = Cardinality(BrAt(h)) + 1 THEN Len(h) ELSE NthBr(h, k) - 1)

IsSet(v) == v.t = "string" /\ v.s # ""

\* C8: no object or no layer gives no tooltip; a bridge layer always gives an
\* HTML block whose header is the name (else the bridge id), whose status
\* line is "status - work_order_status" when a work order status is set
\* (status defaulting to work_order) and whose due line is "Overdue: N days"
\* whenever days_overdue is defined, 0 included, else "Due: <due_date>" when
\* a due date is set, else empty; the aoi layer gives an HTML block exactly
\* when name, id and a known land-use label are defined; every other layer
\* gives no tooltip.
C8_Tooltip ==
    tipOut.kind # "pending" =>
        LET o == tipIn.object
            l == tipIn.layer
            h == tipOut.html
        IN  IF o.t = "undefined" \/ l = ""
            THEN tipOut.kind = "null"
            ELSE IF l \in { "bridge-status", "bridge-status-label" }
            THEN /\ tipOut.kind = "html"
                 /\ Cardinality(BrAt(h)) = 4
                 /\ LineOf(h, 1) =
                        << "<b>" >>
                        \o TextOf(IF o.name.t # "undefined" THEN o.name ELSE o.bridge_id)
                        \o << "</b>" >>
                 /\ IsSet(o.work_order_status) =>
                        LineOf(h, 2) =
                            << IF o.status.t # "undefined" THEN o.status.s ELSE "work_order",
                               " - ", o.work_order_status.s >>
                 /\ LineOf(h, 5) =
                        IF o.days_overdue.t # "undefined"
                        THEN << "Overdue: " >> \o TextOf(o.days_overdue) \o << " days" >>
                        ELSE IF IsSet(o.due_date) THEN << "Due: ", o.due_date.s >>
                        ELSE << >>
            ELSE IF l = "aoi"
            THEN /\ tipOut.kind \in { "html", "null" }
                 /\ tipOut.kind = "html" <=>
                        /\ o.properties.t = "object"
                        /\ o.properties.name.t # "undefined"
                        /\ o.id.t # "undefined"
                        /\ o.properties.land_use.t = "string"
                        /\ o.properties.land_use.s \in LandUseTypes
            ELSE tipOut.kind = "null"

C8_Witness ==
    /\ tipIn.layer = "bridge-status-label"
    /\ tipIn.object.days_overdue = Num(0)
    /\ tipIn.object.due_date = Str("2025-01-01")
    /\ tipIn.object.work_order_status = Str("in_progress")
    /\ tipOut.kind = "html"
    /\ LineOf(tipOut.html, 5) = << "Overdue: ", "0", " days" >>

====
